---- MODULE Spec2Model ----
(***************************************************************************)
(* Model of MediaSwift's conversion orchestrator (ffpe.py): ffpe.convert   *)
(* validates a batch, starts one thread per input file and joins them;     *)
(* ffpe.convert_single probes the duration, spawns the transcoder and      *)
(* turns its "time=" output lines into tqdm progress updates.              *)
(*                                                                         *)
(* Times are integers in centiseconds (1/100 s): "00:00:15.00" is 1500.    *)
(***************************************************************************)
EXTENDS Integers, Sequences, FiniteSets, TLC

\* ------------------------------------------------------------------ bounds
\* Largest batch (number of input files) of the batch specification.
MaxJobs == 2
\* Most output lines one transcoder process emits in the single-job specification.
MaxLines == 3
\* Most output lines one transcoder process emits in the batch specification.
MaxBatchLines == 1

\* ------------------------------------------------------------- the inputs
\* Paths are kept in parts: directory, stem and extension of the file name.
MkPath(d, s, e) == [dir |-> d, stem |-> s, ext |-> e]

FileA == MkPath("a", "x", "mp4")
FileB == MkPath("b", "x", "mkv")
FileGone == MkPath("a", "z", "mp4")

\* The paths a caller passes, and those of them that exist on disk.
InputPaths == {FileA, FileB, FileGone}
ExistingFiles == {FileA, FileB}

\* os.path.exists(input_file)
PathExists(p) == p \in ExistingFiles

\* All sequences over S of length 0..n.
SeqUpTo(S, n) == UNION {[1..k -> S] : k \in 0..n}

\* What ffprobe can answer: a non-zero exit, or exit 0 with a text on stdout that
\* is either a decimal number of seconds (cs: its value in centiseconds) or not.
ProbeFailure == [rc |-> 1, numeric |-> FALSE, cs |-> 0]
ProbeNotANumber == [rc |-> 0, numeric |-> FALSE, cs |-> 0]
ProbeSeconds(c) == [rc |-> 0, numeric |-> TRUE, cs |-> c]

\* An output line of the transcoder, as far as the code looks at it:
\*   decodable  the bytes are valid UTF-8
\*   marker     the line contains "time=" followed by the stamp below
\*   digits     the stamp starts with three colon-separated digit groups h:m:s
\*   sep, frac  the character after the seconds' digits and the digits after it
Stamp(h, m, s, sep, frac) ==
    [decodable |-> TRUE, marker |-> TRUE, digits |-> TRUE,
     h |-> h, m |-> m, s |-> s, sep |-> sep, frac |-> frac]
\* "frame=120 size=..." : no time marker
PlainLine ==
    [decodable |-> TRUE, marker |-> FALSE, digits |-> FALSE,
     h |-> 0, m |-> 0, s |-> 0, sep |-> ".", frac |-> 0]
\* "time=N/A" : a marker followed by no digit groups
NoStampLine ==
    [decodable |-> TRUE, marker |-> TRUE, digits |-> FALSE,
     h |-> 0, m |-> 0, s |-> 0, sep |-> ".", frac |-> 0]
\* bytes that are not UTF-8
UndecodableLine ==
    [decodable |-> FALSE, marker |-> FALSE, digits |-> FALSE,
     h |-> 0, m |-> 0, s |-> 0, sep |-> ".", frac |-> 0]
\* "time=00:00:SS.00"
TimeLine(sec) == Stamp(0, 0, sec, ".", 0)

\* ------------------------------------------------------- the pure functions
\* re.search(r"time=(\d+:\d+:\d+.\d+)", line): the unescaped "." takes any
\* character between the two last digit groups.
RegexMatches(ln) == ln.marker /\ ln.digits

\* time_str.split(":") followed by the unpacking into h, m, s and float():
\* a ":" separator gives four parts, a separator that is neither "." nor a digit
\* gives a text float() rejects; both raise ValueError.
ParseRaises(ln) == ln.sep \notin {".", "0"}

\* h * 3600 + m * 60 + s, in centiseconds. With a digit as separator the
\* seconds' text is one longer integer (s, the digit, the two digits of frac).
ElapsedTime(ln) ==
    LET secs == IF ln.sep = "." THEN ln.s * 100 + ln.frac
                ELSE (ln.s * 1000 + ln.frac) * 100
    IN ln.h * 360000 + ln.m * 6000 + secs

\* ProgressPercentage without the min(..., 1.0).
ProgressPercentageUnclamped(elapsed, dur) == (100 * elapsed + dur - 1) \div dur

\* The double-precision quotient elapsed_time / duration times 100 of line 484
\* and 487 lands just above the integer it equals in exact arithmetic, so that
\* np.ceil gives the next integer. These are all such pairs among whole
\* seconds of elapsed time below a duration of 60.0 or 100.0 seconds, e.g.
\* 7.0 / 100.0 * 100 = 7.000000000000001. No pair of that range lands below.
DoubleRoundsUp(elapsed, dur) ==
    <<elapsed, dur>> \in {<<3300, 6000>>, <<700, 10000>>, <<1400, 10000>>,
                          <<2800, 10000>>, <<5500, 10000>>, <<5600, 10000>>}

\* int(np.ceil(min(elapsed_time / duration, 1.0) * 100)) for duration > 0, as
\* the doubles of Python evaluate it: the least p with
\* p * duration >= 100 * elapsed, one more where the product rounds up, and
\* 100 from elapsed >= duration on.
ProgressPercentage(elapsed, dur) ==
    IF elapsed >= dur THEN 100
    ELSE (100 * elapsed + dur - 1) \div dur
         + (IF DoubleRoundsUp(elapsed, dur) THEN 1 ELSE 0)

\* str(v) for a number v >= 0: its decimal digits.
DigitText == <<"0", "1", "2", "3", "4", "5", "6", "7", "8", "9">>
RECURSIVE Str(_)
Str(v) == IF v < 10 THEN DigitText[v + 1]
          ELSE Str(v \div 10) \o DigitText[(v % 10) + 1]

\* The options that are texts and those that are numbers (lines 173-183).
TextOptions == {"cv", "ca", "s", "hwaccel", "ba", "f", "preset", "bv"}
NumberOptions == {"ar", "ac", "r"}

\* The options of v that pass the code's truth tests (if cv:, if ar:): a text
\* that is not empty, a number that is not 0.
Truthy(v) ==
    {k \in TextOptions : v[k] # ""} \cup {k \in NumberOptions : v[k] # 0}

\* The encode options of a call. given is the set of options passed, i.e. not
\* None; an option left None carries "" or 0, which the truth tests treat as
\* they treat None. Here every option passed is true.
MkOptions(cv, ca, s, hwaccel, ar, ac, ba, r, f, preset, bv) ==
    LET v == [cv |-> cv, ca |-> ca, s |-> s, hwaccel |-> hwaccel, ar |-> ar,
              ac |-> ac, ba |-> ba, r |-> r, f |-> f, preset |-> preset,
              bv |-> bv, given |-> {}]
    IN [v EXCEPT !.given = Truthy(v)]

\* The video-to-audio call of the docstring (lines 244-252).
ExampleOptions == MkOptions("", "", "", "cuda", 44100, 2, "192k", 0, "mp3", "", "")

\* A resolution written with the multiplication sign U+00D7 instead of "x".
TimesResolution == "1920(U+00D7)1080"

\* Every choice of options passed and left None; cv and ar may also be passed
\* as the empty text and as 0.
OptionChoices ==
    LET values ==
            [cv : {"", "h264"}, ca : {"", "aac"},
             s : {"", "1920x1080", TimesResolution}, hwaccel : {"", "cuda"},
             ar : {0, 44100}, ac : {0, 2}, ba : {"", "192k"}, r : {0, 30},
             f : {"", "mp4"}, preset : {"", "fast"}, bv : {"", "50m"},
             given : {{}}]
    IN {[v EXCEPT !.given = Truthy(v) \cup z] :
            v \in values, z \in SUBSET {"cv", "ar"}}

\* Lines 140-143: self.ffpe_path.
FfpePath == "bin/ffpe.exe"

\* The text of a path.
PathText(p) == p.dir \o "/" \o p.stem \o "." \o p.ext

\* The f-string's text of f (line 297): an f that is None gives "None".
FormatText(opts) == IF "f" \in opts.given THEN opts.f ELSE "None"

\* Lines 295-298: os.path.join(output_dir, f"{splitext(basename)[0]}.{f}").
OutputFile(dir, p, f) == dir \o "/" \o p.stem \o "." \o f

\* Line 445: s.replace("\u00d7", "x").
ReplaceTimes(s) == IF s = TimesResolution THEN "1920x1080" ELSE s

\* A flag/value pair, appended when the option is true.
FlagPair(present, flag, value) == IF present THEN <<flag, value>> ELSE <<>>

\* Lines 433-463: the command list.
BuildCommand(opts, input, output) ==
    <<FfpePath, "-hide_banner">>
    \o FlagPair(opts.hwaccel # "", "-hwaccel", opts.hwaccel)
    \o <<"-i", PathText(input)>>
    \o FlagPair(opts.cv # "", "-c:v", opts.cv)
    \o FlagPair(opts.ca # "", "-c:a", opts.ca)
    \o FlagPair(opts.s # "", "-s", ReplaceTimes(opts.s))
    \o FlagPair(opts.ar # 0, "-ar", Str(opts.ar))
    \o FlagPair(opts.ac # 0, "-ac", Str(opts.ac))
    \o FlagPair(opts.ba # "", "-b:a", opts.ba)
    \o FlagPair(opts.r # 0, "-r", Str(opts.r))
    \o FlagPair(opts.f # "", "-f", opts.f)
    \o FlagPair(opts.preset # "", "-preset", opts.preset)
    \o FlagPair(opts.bv # "", "-b:v", opts.bv)
    \o FlagPair(output # "", "-y", output)

\* ---------------------------------------------------------------- the state
VARIABLES
    input_files,  \* convert's input_files argument: a sequence of paths
    output_dir,   \* convert's output_dir argument ("" when not given)
    pc,           \* where convert is: validate, starting, joining, returned, rejected
    started,      \* Len(threads): threads created and started so far
    joined,       \* threads the join loop has passed
    result,       \* the outcomes convert hands back to its caller, as a sequence
    console,      \* the messages the workers printed, in the order printed
    wstate,       \* per job: where its worker is
    duration,     \* per job: the probed duration (centiseconds), -1 before the probe
    n,            \* per job: progress_bar.n
    events,       \* per job: the arguments of progress_bar.update, in order
    closed,       \* per job: progress_bar.close() was called
    probes,       \* per job: calls of get_duration
    spawns,       \* per job: calls of subprocess.Popen
    proc,         \* per job: the transcoder process: none, running, exit0, exit1
    nread,        \* per job: output lines the worker has taken from the pipe
    line,         \* per job: the loop variable line: the line taken last
    stdout,       \* per job: the lines the worker has taken from process.stdout
    options,      \* convert's encode options cv, ca, s, hwaccel, ar, ac, ba, r, f,
                  \* preset, bv (None is "" for a text and 0 for a number)
    output_file,  \* per job: the output path convert derived for it ("" before)
    command,      \* per job: the command list convert_single built (<<>> before)
    progress_bar  \* per job: the tqdm object handed to convert_single (0: none yet)

vars == <<input_files, output_dir, pc, started, joined, result, console, wstate,
          duration, n, events, closed, probes, spawns, proc, nread, line, stdout,
          options, output_file, command, progress_bar>>

mainVars == <<pc, started, joined, result>>
argVars == <<input_files, output_dir, options>>

NJobs == Len(input_files)
Jobs == 1..NJobs

\* A worker that has not ended: its thread is alive.
Alive == {"Pending", "Probing", "Running"}
Terminal == {"Succeeded", "Failed"}

\* The state right after construction, for a given call of convert.
InitCall(files, dir, opts) ==
    /\ input_files = files
    /\ output_dir = dir
    /\ options = opts
    /\ pc = "validate"
    /\ started = 0
    /\ joined = 0
    /\ result = <<>>
    /\ console = <<>>
    /\ wstate = [i \in 1..Len(files) |-> "NotStarted"]
    /\ duration = [i \in 1..Len(files) |-> -1]
    /\ n = [i \in 1..Len(files) |-> 0]
    /\ events = [i \in 1..Len(files) |-> <<>>]
    /\ closed = [i \in 1..Len(files) |-> FALSE]
    /\ probes = [i \in 1..Len(files) |-> 0]
    /\ spawns = [i \in 1..Len(files) |-> 0]
    /\ proc = [i \in 1..Len(files) |-> "none"]
    /\ nread = [i \in 1..Len(files) |-> 0]
    /\ line = [i \in 1..Len(files) |-> PlainLine]
    /\ stdout = [i \in 1..Len(files) |-> <<>>]
    /\ output_file = [i \in 1..Len(files) |-> ""]
    /\ command = [i \in 1..Len(files) |-> <<>>]
    /\ progress_bar = [i \in 1..Len(files) |-> 0]

\* ------------------------------------------------------------ ffpe.convert
\* Lines 184, 265, 269, 278, 335: convert returns None on every path: the
\* caller is handed no outcome at all.
ReturnValue == <<>>

\* Rejects with the existence check made on the first file only.
RejectsFirstOnly(files, dir) ==
    \/ files = <<>>
    \/ dir = ""
    \/ ~PathExists(files[1])

\* Rejects without the test of the output directory.
RejectsWithoutDirCheck(files, dir) ==
    \/ files = <<>>
    \/ \E k \in 1..Len(files) : ~PathExists(files[k])

\* The three early returns of convert, in the order the code takes them.
Rejects(files, dir) ==
    \/ files = <<>>
    \/ dir = ""
    \/ \E k \in 1..Len(files) : ~PathExists(files[k])

\* Lines 263-278: validation, before any thread exists.
Validate ==
    /\ pc = "validate"
    /\ IF Rejects(input_files, output_dir)
       THEN pc' = "rejected" /\ result' = ReturnValue
       ELSE pc' = "starting" /\ result' = result
    /\ UNCHANGED <<argVars, started, joined, console, wstate, duration, n, events,
                   closed, probes, spawns, proc, nread, line, stdout, output_file,
                   command, progress_bar>>

\* StartThread run one conversion after the other: the next thread is started
\* only when the one before it has ended.
StartThreadAfterPrevious ==
    /\ pc = "starting"
    /\ started < NJobs
    /\ IF started = 0 THEN TRUE ELSE wstate[started] \in Terminal
    /\ started' = started + 1
    /\ wstate' = [wstate EXCEPT ![started + 1] = "Pending"]
    /\ n' = [n EXCEPT ![started + 1] = 0]
    /\ output_file' = [output_file EXCEPT ![started + 1] =
                           OutputFile(output_dir, input_files[started + 1], FormatText(options))]
    /\ progress_bar' = [progress_bar EXCEPT ![started + 1] = started + 1]
    /\ pc' = IF started + 1 = NJobs THEN "joining" ELSE "starting"
    /\ UNCHANGED <<argVars, joined, result, console, duration, events, closed,
                   probes, spawns, proc, nread, line, stdout, command>>

\* Lines 294-331: one pass of the loop: a fresh tqdm bar (n = 0; the bar of
\* job i is the i-th object made, named i here), a thread created, started
\* and appended to threads.
StartThread ==
    /\ pc = "starting"
    /\ started < NJobs
    /\ started' = started + 1
    /\ wstate' = [wstate EXCEPT ![started + 1] = "Pending"]
    /\ n' = [n EXCEPT ![started + 1] = 0]
    /\ output_file' = [output_file EXCEPT ![started + 1] =
                           OutputFile(output_dir, input_files[started + 1], FormatText(options))]
    /\ progress_bar' = [progress_bar EXCEPT ![started + 1] = started + 1]
    /\ pc' = IF started + 1 = NJobs THEN "joining" ELSE "starting"
    /\ UNCHANGED <<argVars, joined, result, console, duration, events, closed,
                   probes, spawns, proc, nread, line, stdout, command>>

\* A join that waits for the thread to have started only.
ThreadStarted(i) == wstate[i] # "NotStarted"

\* thread.join() returns once the thread has ended.
ThreadEnded(i) == wstate[i] \in Terminal

\* Lines 334-335: one pass of the join loop; after the last one convert returns.
JoinThread ==
    /\ pc = "joining"
    /\ joined < NJobs
    /\ ThreadEnded(joined + 1)
    /\ joined' = joined + 1
    /\ IF joined + 1 = NJobs
       THEN pc' = "returned" /\ result' = ReturnValue
       ELSE pc' = pc /\ result' = result
    /\ UNCHANGED <<argVars, started, console, wstate, duration, n, events, closed,
                   probes, spawns, proc, nread, line, stdout, output_file, command,
                   progress_bar>>

\* ----------------------------------------------------- ffpe.convert_single
\* Lines 496-499: which except clause takes the exception.
Handler(raised) ==
    IF raised = "CalledProcessError" THEN "FFPE COMMAND FAILED" ELSE "AN ERROR OCCURRED"

\* Line 499 (and 497): the except clauses print one message and the worker
\* ends; nothing is re-raised, nothing is closed or waited for.
\* The text is "FFPE COMMAND FAILED WITH ERROR: {e}" for a CalledProcessError
\* and "AN ERROR OCCURRED: {e}" for any other exception e.
Message(i, raised) == [job |-> i, text |-> Handler(raised), exc |-> raised]
Completed(i) == [job |-> i, text |-> "CONVERSION COMPLETED", exc |-> "none"]

\* Lines 503-507: check_output raises CalledProcessError on a non-zero exit,
\* float() raises ValueError on a text that is no number.
GetDuration(out) ==
    IF out.rc # 0 THEN [raised |-> "CalledProcessError", value |-> -1]
    ELSE IF ~out.numeric THEN [raised |-> "ValueError", value |-> -1]
    ELSE [raised |-> "none", value |-> out.cs]

\* Line 337: the key lru_cache makes of a call's arguments (self apart, which
\* is the one ffpe object): the paths, the options and the bar, a tqdm object
\* hashing by identity.
CallKey(i) == <<input_files[i], output_file[i], options, progress_bar[i]>>

\* Line 337: the cache holds the key of every call that has returned; every
\* call returns None, the exceptions being caught at 496-499.
Cache == {CallKey(j) : j \in {k \in Jobs : wstate[k] \in Terminal}}

\* Line 337: a call whose key is in the cache returns the cached None and
\* the body of convert_single is not run.
ReplayCached(i) ==
    /\ wstate[i] = "Pending"
    /\ CallKey(i) \in Cache
    /\ wstate' = [wstate EXCEPT ![i] = "Replayed"]
    /\ UNCHANGED <<argVars, mainVars, console, duration, n, events, closed,
                   probes, spawns, proc, nread, line, stdout, output_file,
                   command, progress_bar>>

\* BeginProbe entered again by a worker that has failed.
BeginProbeRetries(i) ==
    /\ wstate[i] \in {"Pending", "Failed"}
    /\ probes[i] < 2
    /\ command' = [command EXCEPT ![i] =
                       BuildCommand(options, input_files[i], output_file[i])]
    /\ wstate' = [wstate EXCEPT ![i] = "Probing"]
    /\ probes' = [probes EXCEPT ![i] = @ + 1]
    /\ UNCHANGED <<argVars, mainVars, console, duration, n, events, closed, spawns,
                   proc, nread, line, stdout, output_file, progress_bar>>

\* Lines 337, 433-466: the key is not in the cache, the command is built and
\* get_duration is entered.
BeginProbe(i) ==
    /\ wstate[i] = "Pending"
    /\ CallKey(i) \notin Cache
    /\ command' = [command EXCEPT ![i] =
                       BuildCommand(options, input_files[i], output_file[i])]
    /\ wstate' = [wstate EXCEPT ![i] = "Probing"]
    /\ probes' = [probes EXCEPT ![i] = @ + 1]
    /\ UNCHANGED <<argVars, mainVars, console, duration, n, events, closed, spawns,
                   proc, nread, line, stdout, output_file, progress_bar>>

\* ProbeFails taking the whole batch down: every worker still alive is ended.
ProbeFailsAbortsSiblings(i, out) ==
    /\ wstate[i] = "Probing"
    /\ GetDuration(out).raised # "none"
    /\ wstate' = [j \in Jobs |-> IF j = i \/ wstate[j] \in Alive
                                 THEN "Failed" ELSE wstate[j]]
    /\ console' = Append(console, Message(i, GetDuration(out).raised))
    /\ UNCHANGED <<argVars, mainVars, duration, n, events, closed, probes, spawns,
                   proc, nread, line, stdout, output_file, command,
                   progress_bar>>

\* ProbeFails with the exception swallowed: nothing is printed.
ProbeFailsSilently(i, out) ==
    /\ wstate[i] = "Probing"
    /\ GetDuration(out).raised # "none"
    /\ wstate' = [wstate EXCEPT ![i] = "Failed"]
    /\ UNCHANGED <<argVars, mainVars, console, duration, n, events, closed, probes,
                   spawns, proc, nread, line, stdout, output_file, command,
                   progress_bar>>

\* ProbeFails with Popen moved before get_duration: the process exists already
\* when the probe raises.
ProbeFailsAfterSpawn(i, out) ==
    /\ wstate[i] = "Probing"
    /\ GetDuration(out).raised # "none"
    /\ spawns' = [spawns EXCEPT ![i] = @ + 1]
    /\ proc' = [proc EXCEPT ![i] = "running"]
    /\ wstate' = [wstate EXCEPT ![i] = "Failed"]
    /\ console' = Append(console, Message(i, GetDuration(out).raised))
    /\ UNCHANGED <<argVars, mainVars, duration, n, events, closed, probes, nread,
                   line, stdout, output_file, command,
                   progress_bar>>

\* Line 466 raising: the except clause prints and the worker ends; line 468 is
\* never reached.
ProbeFails(i, out) ==
    /\ wstate[i] = "Probing"
    /\ GetDuration(out).raised # "none"
    /\ wstate' = [wstate EXCEPT ![i] = "Failed"]
    /\ console' = Append(console, Message(i, GetDuration(out).raised))
    /\ UNCHANGED <<argVars, mainVars, duration, n, events, closed, probes, spawns,
                   proc, nread, line, stdout, output_file, command,
                   progress_bar>>

\* Lines 466-476: the duration is returned and Popen starts the process.
ProbeOkSpawn(i, out) ==
    /\ wstate[i] = "Probing"
    /\ GetDuration(out).raised = "none"
    /\ duration' = [duration EXCEPT ![i] = GetDuration(out).value]
    /\ spawns' = [spawns EXCEPT ![i] = @ + 1]
    /\ proc' = [proc EXCEPT ![i] = "running"]
    /\ wstate' = [wstate EXCEPT ![i] = "Running"]
    /\ UNCHANGED <<argVars, mainVars, console, n, events, closed, probes, nread,
                   line, stdout, output_file, command,
                   progress_bar>>

\* Lines 466-476 with Popen raising OSError (no process comes to exist).
ProbeOkSpawnFails(i, out) ==
    /\ wstate[i] = "Probing"
    /\ GetDuration(out).raised = "none"
    /\ duration' = [duration EXCEPT ![i] = GetDuration(out).value]
    /\ spawns' = [spawns EXCEPT ![i] = @ + 1]
    /\ wstate' = [wstate EXCEPT ![i] = "Failed"]
    /\ console' = Append(console, Message(i, "OSError"))
    /\ UNCHANGED <<argVars, mainVars, n, events, closed, probes, proc, nread, line,
                   stdout, output_file, command,
                   progress_bar>>

\* LineRaises with match.group(1) called without the test of line 480: a
\* line the regex does not match raises AttributeError.
LineRaisesOnNoMatch(ln, dur) ==
    IF ~ln.decodable THEN "UnicodeDecodeError"
    ELSE IF ~RegexMatches(ln) THEN "AttributeError"
    ELSE IF ParseRaises(ln) THEN "ValueError"
    ELSE IF dur = 0 THEN "ZeroDivisionError"
    ELSE "none"

\* What handling one line raises, if anything: UnicodeDecodeError from the
\* pipe's decoder (line 478), ValueError from the unpacking or float() (line
\* 482), ZeroDivisionError from elapsed_time / duration (line 484).
LineRaises(ln, dur) ==
    IF ~ln.decodable THEN "UnicodeDecodeError"
    ELSE IF ~RegexMatches(ln) THEN "none"
    ELSE IF ParseRaises(ln) THEN "ValueError"
    ELSE IF dur = 0 THEN "ZeroDivisionError"
    ELSE "none"

\* UpdateDelta handing the absolute percentage to progress_bar.update.
UpdateAbsolute(percentage, barN) == percentage

\* Line 488: the argument of progress_bar.update.
UpdateDelta(percentage, barN) == percentage - barN

\* TqdmUpdate setting the bar to its argument instead of adding it.
TqdmUpdateSets(barN, delta) == delta

\* tqdm.update(delta): self.n += delta, for a negative delta too.
TqdmUpdate(barN, delta) == barN + delta

\* ReadLine with one progress bar for the whole batch: the update moves the
\* bar of every job.
ReadLineSharedBar(i, ln) ==
    /\ wstate[i] = "Running"
    /\ proc[i] = "running"
    /\ nread' = [nread EXCEPT ![i] = @ + 1]
    /\ line' = [line EXCEPT ![i] = ln]
    /\ stdout' = [stdout EXCEPT ![i] = Append(@, ln)]
    /\ IF LineRaises(ln, duration[i]) # "none"
       THEN /\ wstate' = [wstate EXCEPT ![i] = "Failed"]
            /\ console' = Append(console,
                                 Message(i, LineRaises(ln, duration[i])))
            /\ UNCHANGED <<n, events>>
       ELSE IF RegexMatches(ln)
       THEN LET delta == UpdateDelta(
                             ProgressPercentage(ElapsedTime(ln), duration[i]), n[i])
            IN /\ n' = [j \in Jobs |-> TqdmUpdate(n[j], delta)]
               /\ events' = [events EXCEPT ![i] = Append(@, delta)]
               /\ UNCHANGED <<wstate, console>>
       ELSE UNCHANGED <<wstate, console, n, events>>
    /\ UNCHANGED <<argVars, mainVars, duration, closed, probes, spawns, proc,
                   output_file, command,
                   progress_bar>>

\* Lines 478-488: one pass of the read loop, for the line the process wrote.
ReadLine(i, ln) ==
    /\ wstate[i] = "Running"
    /\ proc[i] = "running"
    /\ nread' = [nread EXCEPT ![i] = @ + 1]
    /\ line' = [line EXCEPT ![i] = ln]
    /\ stdout' = [stdout EXCEPT ![i] = Append(@, ln)]
    /\ IF LineRaises(ln, duration[i]) # "none"
       THEN /\ wstate' = [wstate EXCEPT ![i] = "Failed"]
            /\ console' = Append(console,
                                 Message(i, LineRaises(ln, duration[i])))
            /\ UNCHANGED <<n, events>>
       ELSE IF RegexMatches(ln)
       THEN LET delta == UpdateDelta(
                             ProgressPercentage(ElapsedTime(ln), duration[i]), n[i])
            IN /\ n' = [n EXCEPT ![i] = TqdmUpdate(@, delta)]
               /\ events' = [events EXCEPT ![i] = Append(@, delta)]
               /\ UNCHANGED <<wstate, console>>
       ELSE UNCHANGED <<wstate, console, n, events>>
    /\ UNCHANGED <<argVars, mainVars, duration, closed, probes, spawns, proc,
                   output_file, command,
                   progress_bar>>

\* tqdm.close(): the bar is closed as it stands; n is not moved to total.
TqdmClose(barN) == barN

\* ReadEOF with the exception handled inside the loop: a worker that has
\* printed an error reads on to the end of the output and completes.
ReadEOFAfterFailure(i, rc) ==
    /\ wstate[i] \in {"Running", "Failed"}
    /\ proc[i] = "running"
    /\ proc' = [proc EXCEPT ![i] = IF rc = 0 THEN "exit0" ELSE "exit1"]
    /\ wstate' = [wstate EXCEPT ![i] = "Succeeded"]
    /\ n' = [n EXCEPT ![i] = TqdmClose(@)]
    /\ closed' = [closed EXCEPT ![i] = TRUE]
    /\ console' = Append(console, Completed(i))
    /\ UNCHANGED <<argVars, mainVars, duration, events, probes, spawns, nread,
                   line, stdout, output_file, command,
                   progress_bar>>

\* Lines 478, 490-494: the process ends with exit status rc and its output
\* ends; the loop is left, the bar is closed and the completion message is
\* printed. The exit status is never read (no wait(), no returncode).
ReadEOF(i, rc) ==
    /\ wstate[i] = "Running"
    /\ proc[i] = "running"
    /\ proc' = [proc EXCEPT ![i] = IF rc = 0 THEN "exit0" ELSE "exit1"]
    /\ wstate' = [wstate EXCEPT ![i] = "Succeeded"]
    /\ n' = [n EXCEPT ![i] = TqdmClose(@)]
    /\ closed' = [closed EXCEPT ![i] = TRUE]
    /\ console' = Append(console, Completed(i))
    /\ UNCHANGED <<argVars, mainVars, duration, events, probes, spawns, nread,
                   line, stdout, output_file, command,
                   progress_bar>>

\* The process of job i writes nothing more and never closes its output:
\* a worker in the read loop of line 478 waits in it, and no timeout or
\* cancellation (none in lines 465-501 or 333-335) ends the wait.
Stall(i) ==
    /\ proc[i] = "running"
    /\ proc' = [proc EXCEPT ![i] = "stalled"]
    /\ UNCHANGED <<argVars, mainVars, console, wstate, duration, n, events,
                   closed, probes, spawns, nread, line, stdout, output_file,
                   command, progress_bar>>

\* ------------------------------------------------------ the specifications
\* The environment of the batch specification: what the probes answer and
\* what the processes write.
BatchProbeOutputs == {ProbeFailure, ProbeNotANumber, ProbeSeconds(10000)}
BatchLines == {TimeLine(50), PlainLine, Stamp(0, 0, 15, ":", 0)}

\* The environment of the single-job specification.
JobProbeOutputs ==
    {ProbeFailure, ProbeNotANumber, ProbeSeconds(0), ProbeSeconds(6000),
     ProbeSeconds(10000)}
JobLines ==
    {TimeLine(s) : s \in {5, 7, 10, 15, 20, 60, 150}}
    \cup {PlainLine, NoStampLine, UndecodableLine, Stamp(0, 0, 15, "x", 0),
          Stamp(0, 0, 15, ":", 0), Stamp(0, 0, 1, "0", 0), Stamp(1, 2, 3, ".", 50)}

ExitStatuses == {0, 1}

\* Any batch of up to MaxJobs paths, with or without an output directory.
Init ==
    \E files \in SeqUpTo(InputPaths, MaxJobs), dir \in {"", "out"} :
        InitCall(files, dir, ExampleOptions)

Next ==
    \/ Validate
    \/ StartThread
    \/ JoinThread
    \/ \E i \in Jobs : BeginProbe(i)
    \/ \E i \in Jobs, out \in BatchProbeOutputs : ProbeFails(i, out)
    \/ \E i \in Jobs, out \in BatchProbeOutputs : ProbeOkSpawn(i, out)
    \/ \E i \in Jobs, out \in BatchProbeOutputs : ProbeOkSpawnFails(i, out)
    \/ \E i \in Jobs, ln \in BatchLines :
           nread[i] < MaxBatchLines /\ ReadLine(i, ln)
    \/ \E i \in Jobs, rc \in ExitStatuses : ReadEOF(i, rc)

Spec == Init /\ [][Next]_vars

\* One job, with the richer environment.
InitJob == \E dir \in {"", "out"}, p \in InputPaths : InitCall(<<p>>, dir,
                   ExampleOptions)

NextJob ==
    \/ Validate
    \/ StartThread
    \/ JoinThread
    \/ \E i \in Jobs : BeginProbe(i)
    \/ \E i \in Jobs, out \in JobProbeOutputs : ProbeFails(i, out)
    \/ \E i \in Jobs, out \in JobProbeOutputs : ProbeOkSpawn(i, out)
    \/ \E i \in Jobs, out \in JobProbeOutputs : ProbeOkSpawnFails(i, out)
    \/ \E i \in Jobs, ln \in JobLines : nread[i] < MaxLines /\ ReadLine(i, ln)
    \/ \E i \in Jobs, rc \in ExitStatuses : ReadEOF(i, rc)

SpecJob == InitJob /\ [][NextJob]_vars

\* The batch specification with processes that may stall, and fairness: the
\* threads are scheduled, the probes answer, and a process that has not
\* stalled goes on to write or to end.
NextLive ==
    \/ Validate
    \/ StartThread
    \/ JoinThread
    \/ \E i \in Jobs : BeginProbe(i)
    \/ \E i \in Jobs, out \in BatchProbeOutputs : ProbeFails(i, out)
    \/ \E i \in Jobs, out \in BatchProbeOutputs : ProbeOkSpawn(i, out)
    \/ \E i \in Jobs, out \in BatchProbeOutputs : ProbeOkSpawnFails(i, out)
    \/ \E i \in Jobs, ln \in BatchLines :
           nread[i] < MaxBatchLines /\ ReadLine(i, ln)
    \/ \E i \in Jobs, rc \in ExitStatuses : ReadEOF(i, rc)
    \/ \E i \in Jobs : Stall(i)

SpecLive == Init /\ [][NextLive]_vars /\ WF_vars(NextLive)

\* convert_single called by the caller itself, MaxJobs times on threads or
\* one call after another, with paths and bars of the caller's choice: the
\* same bar may be handed to two calls. The processes write no lines here.
InitDirect ==
    \E files \in [1..MaxJobs -> {FileA, FileB}],
       bars \in [1..MaxJobs -> 1..MaxJobs] :
        /\ input_files = files
        /\ output_dir = "out"
        /\ options = ExampleOptions
        /\ pc = "direct"
        /\ started = MaxJobs
        /\ joined = 0
        /\ result = <<>>
        /\ console = <<>>
        /\ wstate = [i \in 1..MaxJobs |-> "Pending"]
        /\ duration = [i \in 1..MaxJobs |-> -1]
        /\ n = [i \in 1..MaxJobs |-> 0]
        /\ events = [i \in 1..MaxJobs |-> <<>>]
        /\ closed = [i \in 1..MaxJobs |-> FALSE]
        /\ probes = [i \in 1..MaxJobs |-> 0]
        /\ spawns = [i \in 1..MaxJobs |-> 0]
        /\ proc = [i \in 1..MaxJobs |-> "none"]
        /\ nread = [i \in 1..MaxJobs |-> 0]
        /\ line = [i \in 1..MaxJobs |-> PlainLine]
        /\ stdout = [i \in 1..MaxJobs |-> <<>>]
        /\ output_file = [i \in 1..MaxJobs |->
                              OutputFile("out", files[i], FormatText(ExampleOptions))]
        /\ command = [i \in 1..MaxJobs |-> <<>>]
        /\ progress_bar = bars

NextDirect ==
    \/ \E i \in Jobs : ReplayCached(i)
    \/ \E i \in Jobs : BeginProbe(i)
    \/ \E i \in Jobs, out \in BatchProbeOutputs : ProbeFails(i, out)
    \/ \E i \in Jobs, out \in BatchProbeOutputs : ProbeOkSpawn(i, out)
    \/ \E i \in Jobs, out \in BatchProbeOutputs : ProbeOkSpawnFails(i, out)
    \/ \E i \in Jobs, rc \in ExitStatuses : ReadEOF(i, rc)

SpecDirect == InitDirect /\ [][NextDirect]_vars

\* One job of an existing file, under every choice of encode options.
InitCmd == \E opts \in OptionChoices : InitCall(<<FileA>>, "out", opts)

NextCmd ==
    \/ Validate
    \/ StartThread
    \/ JoinThread
    \/ \E i \in Jobs : BeginProbe(i)
    \/ \E i \in Jobs, out \in BatchProbeOutputs : ProbeFails(i, out)
    \/ \E i \in Jobs, out \in BatchProbeOutputs : ProbeOkSpawn(i, out)
    \/ \E i \in Jobs, rc \in ExitStatuses : ReadEOF(i, rc)

SpecCmd == InitCmd /\ [][NextCmd]_vars

\* ---------------------------------------------------------------- claims
\* What belongs to job j alone: its worker's position, bar, process and counts.
JobState(j) ==
    <<wstate[j], duration[j], n[j], events[j], closed[j], probes[j], spawns[j],
      proc[j], nread[j], line[j], stdout[j], output_file[j], command[j]>>

\* C1: a batch that is empty or names a file that does not exist never gets a
\* worker thread, a duration probe or a transcoder process, wherever the
\* missing file stands in the list.
C1_BatchAllOrNothing ==
    (input_files = <<>> \/ \E k \in Jobs : ~PathExists(input_files[k]))
        => /\ started = 0
           /\ \A i \in Jobs : /\ wstate[i] = "NotStarted"
                              /\ probes[i] = 0
                              /\ spawns[i] = 0
                              /\ proc[i] = "none"

\* C1 witness: the batch [A (exists), gone (missing)] with an output directory
\* has been rejected.
C1_Witness ==
    /\ pc = "rejected"
    /\ output_dir # ""
    /\ NJobs = 2
    /\ PathExists(input_files[1])
    /\ ~PathExists(input_files[2])

\* C2 (as claimed): within a job no progress_bar.update is given a negative
\* delta, so the reported percent never goes down.
C2_PercentNeverDecreases ==
    \A i \in Jobs : \A k \in 1..Len(events[i]) : events[i][k] >= 0

\* C3: the reported percent of every job is an integer in 0..100 in every
\* state, and it is exactly 100 once the stamp read last lies beyond a
\* (positive) probed duration.
C3_PercentInRange ==
    \A i \in Jobs :
        /\ n[i] \in 0..100
        /\ (/\ nread[i] > 0
            /\ line[i].decodable
            /\ RegexMatches(line[i])
            /\ ~ParseRaises(line[i])
            /\ duration[i] > 0
            /\ ElapsedTime(line[i]) > duration[i]) => n[i] = 100

\* C3 witness: elapsed 150 s over a duration of 100 s has been reported as 100.
C3_Witness ==
    \E i \in Jobs :
        /\ duration[i] = 10000
        /\ nread[i] > 0
        /\ line[i] = TimeLine(150)
        /\ n[i] = 100

\* C4 (as claimed): a job is Succeeded only if its process exited with status
\* 0, and a job whose process exited with another status is Failed.
C4_SucceededOnlyOnExitZero ==
    \A i \in Jobs :
        /\ wstate[i] = "Succeeded" => proc[i] = "exit0"
        /\ proc[i] = "exit1" => wstate[i] = "Failed"

\* The exceptions job i printed.
ErrorsOf(i) == {k \in 1..Len(console) : console[k].job = i /\ console[k].exc # "none"}

\* C5: the step in which one job fails changes nothing of any other job, and
\* when convert has returned every job is terminal with the outcome of its own
\* run: Failed exactly if it printed an exception of its own.
C5_FailureIsolation ==
    /\ [][\A i \in Jobs :
              (wstate[i] # "Failed" /\ wstate'[i] = "Failed")
                  => \A j \in Jobs \ {i} : JobState(j)' = JobState(j)]_vars
    /\ [](pc = "returned" =>
              \A i \in Jobs :
                  /\ wstate[i] \in Terminal
                  /\ wstate[i] = "Failed" <=> ErrorsOf(i) # {})

\* C5 witness: of the batch [A, B], B failed in its probe before A ended, A
\* succeeded and convert has returned.
C5_Witness ==
    /\ pc = "returned"
    /\ NJobs = 2
    /\ wstate[1] = "Succeeded"
    /\ wstate[2] = "Failed"
    /\ probes[2] = 1
    /\ spawns[2] = 0
    /\ console[1].job = 2

\* The messages job i printed.
MessagesOf(i) == {k \in 1..Len(console) : console[k].job = i}

C7_JoinBarrier ==
    pc = "returned" => \A i \in Jobs : wstate[i] \in Terminal

\* C7 witness: convert has returned from a batch of two whose workers both
\* ran a transcoder process.
C7_Witness ==
    /\ pc = "returned"
    /\ NJobs = 2
    /\ joined = 2
    /\ \A i \in Jobs : spawns[i] = 1

\* C8: a process is spawned only after the job's probe has returned a
\* duration, and a worker that left the probe without a duration is Failed
\* with no process ever spawned.
C8_ProbeBeforeSpawn ==
    \A i \in Jobs :
        /\ spawns[i] > 0 => (probes[i] > 0 /\ duration[i] >= 0)
        /\ proc[i] # "none" => spawns[i] > 0
        /\ (duration[i] = -1 /\ wstate[i] \notin {"NotStarted", "Pending", "Probing"})
               => (wstate[i] = "Failed" /\ spawns[i] = 0 /\ proc[i] = "none")

\* C8 witness: a job whose probe printed something that is no number is Failed
\* with no process spawned.
C8_Witness ==
    \E i \in Jobs :
        /\ wstate[i] = "Failed"
        /\ probes[i] = 1
        /\ spawns[i] = 0
        /\ \E k \in MessagesOf(i) : console[k].exc = "ValueError"

\* C9 (as claimed): a job (of positive duration) that is Succeeded after its
\* process exited with status 0 reports 100 percent, and its bar is closed.
C9_SucceededAtHundred ==
    \A i \in Jobs :
        (wstate[i] = "Succeeded" /\ proc[i] = "exit0" /\ duration[i] > 0)
            => (n[i] = 100 /\ closed[i])

\* A line with the time marker whose stamp is no number: no digit groups after
\* the marker, or a character other than "." or a digit inside the seconds.
Unparseable(ln) ==
    ln.decodable /\ ln.marker /\ (~ln.digits \/ ln.sep \notin {".", "0"})

\* C10 (as claimed): in a job of positive duration, reading a line whose stamp
\* is unparseable emits no progress event, leaves the percent alone and keeps
\* the job Running.
C10_UnparseableSkipped ==
    [][\A i \in Jobs :
           (duration[i] > 0 /\ nread'[i] = nread[i] + 1 /\ Unparseable(line'[i]))
               => /\ wstate'[i] = "Running"
                  /\ n'[i] = n[i]
                  /\ events'[i] = events[i]]_vars

\* C11: a validated batch of N jobs gets exactly N workers, job i the i-th,
\* the same path twice included; all N are started before convert waits on
\* any, and starting the next never waits for a worker already started.
C11_OneWorkerPerJob ==
    /\ started <= NJobs
    /\ \A i \in Jobs : wstate[i] # "NotStarted" <=> i <= started
    /\ pc \in {"joining", "returned"} => started = NJobs
    /\ joined > 0 => started = NJobs
    /\ (pc = "starting" /\ started < NJobs) => ENABLED StartThread

\* C11 witness: the same path was submitted twice, both workers are started
\* and alive, and convert has not yet joined any.
C11_Witness ==
    /\ pc = "joining"
    /\ joined = 0
    /\ NJobs = 2
    /\ input_files[1] = input_files[2]
    /\ \A i \in Jobs : wstate[i] \in Alive

\* The transitions of a worker.
AllowedSteps ==
    {<<"NotStarted", "Pending">>, <<"Pending", "Probing">>, <<"Probing", "Running">>,
     <<"Probing", "Failed">>, <<"Running", "Succeeded">>, <<"Running", "Failed">>}

\* C12: a worker moves only along Pending -> Probing -> Running -> Succeeded
\* or Failed (or Probing -> Failed); a terminal worker never changes again
\* and emits no further progress event or message; a job has printed exactly
\* one outcome message when it is terminal and none before.
C12_WorkerStateMachine ==
    /\ [][\A i \in Jobs :
              /\ wstate'[i] # wstate[i] => <<wstate[i], wstate'[i]>> \in AllowedSteps
              /\ wstate[i] \in Terminal =>
                     /\ wstate'[i] = wstate[i]
                     /\ events'[i] = events[i]
                     /\ n'[i] = n[i]
                     /\ MessagesOf(i)' = MessagesOf(i)]_vars
    /\ [](\A i \in Jobs :
              Cardinality(MessagesOf(i)) = IF wstate[i] \in Terminal THEN 1 ELSE 0)

\* C12 witness: one worker ended Succeeded, the other went from Running to
\* Failed on a line it had read.
C12_Witness ==
    /\ NJobs = 2
    /\ wstate[1] = "Succeeded"
    /\ wstate[2] = "Failed"
    /\ nread[2] = 1
    /\ proc[2] = "running"

\* The output of the end-to-end scenario: "time=00:00:15.00", a line without
\* a time marker, "time=00:00:60.00".
ScenarioLines == <<TimeLine(15), PlainLine, TimeLine(60)>>

\* C13: over a duration of 60 s the lines of the scenario give the progress
\* events +25 and then +75, none for the markerless line, and with exit
\* status 0 the job ends Succeeded with its completion message.
C13_EndToEnd ==
    \A i \in Jobs :
        duration[i] = 6000 =>
            /\ stdout[i] = SubSeq(ScenarioLines, 1, 1) => events[i] = <<25>>
            /\ stdout[i] = SubSeq(ScenarioLines, 1, 2) => events[i] = <<25>>
            /\ stdout[i] = ScenarioLines => events[i] = <<25, 75>>
            /\ (stdout[i] = ScenarioLines /\ proc[i] = "exit0") =>
                   /\ wstate[i] = "Succeeded"
                   /\ console = <<Completed(i)>>

\* C13 witness: the scenario has run to its end.
C13_Witness ==
    \E i \in Jobs :
        /\ duration[i] = 6000
        /\ stdout[i] = ScenarioLines
        /\ proc[i] = "exit0"
        /\ wstate[i] = "Succeeded"

\* The sum of a sequence of numbers.
RECURSIVE Sum(_)
Sum(s) == IF s = <<>> THEN 0 ELSE Head(s) + Sum(Tail(s))

\* C14: the deltas given to progress_bar.update so far are integers and add
\* up to the job's current percent, which is at most 100.
C14_DeltasSumToPercent ==
    \A i \in Jobs :
        /\ \A k \in 1..Len(events[i]) : events[i][k] \in Int
        /\ Sum(events[i]) = n[i]
        /\ Sum(events[i]) <= 100

\* C14 witness: three deltas, one of them negative, add up to the percent.
C14_Witness ==
    \E i \in Jobs :
        /\ Len(events[i]) = 3
        /\ \E k \in 1..3 : events[i][k] < 0
        /\ n[i] > 0
        /\ Sum(events[i]) = n[i]

\* The least integer p with p * total >= 100 * elapsed, capped at 100.
LeastPercent(elapsed, total) ==
    IF \E p \in 0..100 : p * total >= 100 * elapsed
    THEN CHOOSE p \in 0..100 :
             /\ p * total >= 100 * elapsed
             /\ \A q \in 0..(p - 1) : q * total < 100 * elapsed
    ELSE 100

\* C17: "time=01:02:03.50" is 3723.5 seconds, and after a line with a
\* well-formed timestamp over a positive duration the reported percent is the
\* least integer p with p * total >= 100 * elapsed, capped at 100.
C17_PercentIsExactCeiling ==
    /\ ElapsedTime(Stamp(1, 2, 3, ".", 50)) = 372350
    /\ \A i \in Jobs :
           (/\ wstate[i] = "Running"
            /\ nread[i] > 0
            /\ duration[i] > 0
            /\ RegexMatches(line[i])
            /\ ~ParseRaises(line[i]))
           => n[i] = LeastPercent(ElapsedTime(line[i]), duration[i])

\* A line the pipe decodes that carries no "time=" followed by a stamp.
NoTimePattern(ln) == ln.decodable /\ ~(ln.marker /\ ln.digits)

\* C16: reading a line without a time pattern emits no progress event and no
\* message, and leaves the job's percent and state and every other job as
\* they were.
C16_MarkerlessLineIgnored ==
    [][\A i \in Jobs :
           (nread'[i] = nread[i] + 1 /\ NoTimePattern(line'[i]))
               => /\ wstate'[i] = wstate[i]
                  /\ n'[i] = n[i]
                  /\ events'[i] = events[i]
                  /\ console' = console
                  /\ \A j \in Jobs \ {i} : JobState(j)' = JobState(j)]_vars

\* C16 witness: job 1 has read a markerless line beside a running job 2 and
\* is still Running at 0 percent.
C16_Witness ==
    /\ NJobs = 2
    /\ nread[1] = 1
    /\ line[1] = PlainLine
    /\ wstate[1] = "Running"
    /\ events[1] = <<>>
    /\ wstate[2] = "Running"

\* C19: a job's duration probe runs at most once and its process is spawned
\* at most once, and a Failed job stays Failed with no further probe or spawn.
C19_NothingRetried ==
    /\ [](\A i \in Jobs : probes[i] <= 1 /\ spawns[i] <= 1)
    /\ [][\A i \in Jobs :
              wstate[i] = "Failed"
                  => /\ wstate'[i] = "Failed"
                     /\ probes'[i] = probes[i]
                     /\ spawns'[i] = spawns[i]]_vars

\* C19 witness: convert has returned with a job that failed after its one
\* probe and its one spawn, and another that failed in its one probe.
C19_Witness ==
    /\ pc = "returned"
    /\ NJobs = 2
    /\ wstate[1] = "Failed" /\ probes[1] = 1 /\ spawns[1] = 1
    /\ wstate[2] = "Failed" /\ probes[2] = 1 /\ spawns[2] = 0

\* C20: a step that changes anything of worker i changes nothing of any
\* other worker j: neither its progress, its process nor its outcome.
C20_NoSharedWorkerState ==
    [][\A i \in Jobs, j \in Jobs :
           (i # j /\ JobState(i)' # JobState(i)) => JobState(j)' = JobState(j)]_vars

\* C20 witness: two workers have each read a line of their own process and
\* stand at different percents.
C20_Witness ==
    /\ NJobs = 2
    /\ nread[1] = 1 /\ nread[2] = 1
    /\ n[1] = 50 /\ n[2] = 0
    /\ wstate[1] = "Running" /\ wstate[2] = "Running"

\* The optional pairs after the input file, in the claimed order, and the
\* flag of each.
OptionOrder == <<"cv", "ca", "s", "ar", "ac", "ba", "r", "f", "preset", "bv">>
FlagOf ==
    [cv |-> "-c:v", ca |-> "-c:a", s |-> "-s", ar |-> "-ar", ac |-> "-ac",
     ba |-> "-b:a", r |-> "-r", f |-> "-f", preset |-> "-preset", bv |-> "-b:v",
     hwaccel |-> "-hwaccel"]

\* The places of x in the command.
Places(cmd, x) == {k \in 1..Len(cmd) : cmd[k] = x}

\* C18: a built command starts with the executable and -hide_banner, ends
\* with -y and the output path, carries the -hwaccel pair before -i, and has
\* the pair of an option exactly when the option was passed, once, in the
\* fixed order, and nothing else.
C18_CommandShape ==
    \A i \in Jobs :
        command[i] # <<>> =>
            LET cmd == command[i]
                at(k) == CHOOSE x \in Places(cmd, FlagOf[k]) : TRUE
                has(k) == Places(cmd, FlagOf[k]) # {}
            IN /\ cmd[1] = FfpePath /\ cmd[2] = "-hide_banner"
               /\ cmd[Len(cmd) - 1] = "-y" /\ cmd[Len(cmd)] = output_file[i]
               /\ Cardinality(Places(cmd, "-i")) = 1
               /\ \A k \in Places(cmd, "-i") : cmd[k + 1] = PathText(input_files[i])
               /\ \A k \in DOMAIN FlagOf :
                      /\ has(k) <=> k \in options.given
                      /\ Cardinality(Places(cmd, FlagOf[k])) <= 1
               /\ has("hwaccel") =>
                      /\ at("hwaccel") = 3
                      /\ cmd[4] = options.hwaccel
                      /\ cmd[5] = "-i"
               /\ ~has("hwaccel") => cmd[3] = "-i"
               /\ \A a \in 1..Len(OptionOrder), b \in 1..Len(OptionOrder) :
                      (a < b /\ has(OptionOrder[a]) /\ has(OptionOrder[b]))
                          => at(OptionOrder[a]) < at(OptionOrder[b])
               /\ Len(cmd) = 6 + 2 * Cardinality(options.given)

\* C15: when no process stalls convert comes to its end; a job whose
\* process has stalled (for good: nothing leaves that state) has its worker
\* Running, and convert has not returned.
C15_ReturnsUnlessStalled ==
    /\ ([](\A i \in Jobs : proc[i] # "stalled"))
           => <>(pc \in {"rejected", "returned"})
    /\ [][\A i \in Jobs : proc[i] = "stalled" => proc'[i] = "stalled"]_vars
    /\ [](\A i \in Jobs :
              proc[i] = "stalled" => wstate[i] = "Running" /\ pc # "returned")

\* C21: every call of convert_single that has got past its start runs the
\* conversion: it has probed the duration, it has spawned the process if the
\* probe answered, and none returns without having run.
C21_EveryCallRuns ==
    \A i \in Jobs :
        /\ wstate[i] \notin {"NotStarted", "Pending"} => probes[i] = 1
        /\ wstate[i] \in {"Running", "Succeeded"} => spawns[i] = 1
        /\ wstate[i] # "Replayed"

\* C22: a worker that has ended, and hence convert when it has returned,
\* leaves no process of its own running: the process it spawned has exited.
C22_NoOrphanedProcess ==
    /\ \A i \in Jobs : wstate[i] \in Terminal => proc[i] # "running"
    /\ pc = "returned" => \A i \in Jobs : proc[i] # "running"

\* C23: two jobs of one batch never have the same output path, so two
\* processes running at once never write the same file.
C23_DistinctOutputPaths ==
    \A i \in Jobs, j \in Jobs :
        /\ (i # j /\ output_file[i] # "" /\ output_file[j] # "")
               => output_file[i] # output_file[j]
        /\ (i # j /\ proc[i] = "running" /\ proc[j] = "running")
               => command[i][Len(command[i])] # command[j][Len(command[j])]

\* C24: a job that is terminal, Failed as well as Succeeded, has had its
\* progress bar closed.
C24_BarClosedOnEveryPath ==
    \A i \in Jobs : wstate[i] \in Terminal => closed[i]

\* C25: a call of convert without an output directory never gets a worker
\* thread, a duration probe or a transcoder process, whatever its input files.
C25_NoOutputDirRejected ==
    output_dir = ""
        => /\ pc \in {"validate", "rejected"}
           /\ started = 0
           /\ \A i \in Jobs : /\ wstate[i] = "NotStarted"
                              /\ probes[i] = 0
                              /\ spawns[i] = 0
                              /\ proc[i] = "none"

\* C25 witness: a batch of two existing files and no output directory has
\* been rejected.
C25_Witness ==
    /\ pc = "rejected"
    /\ output_dir = ""
    /\ NJobs = 2
    /\ \A i \in Jobs : PathExists(input_files[i])

====
